---- MODULE Spec2Model ----
(***************************************************************************)
(* Model of tools/poryscript/parser/formattext.go: the font-width driven   *)
(* line wrapping of FormatText, its tokenizer getNextWord and the width    *)
(* lookups.  Strings are sequences of one-character strings; positions     *)
(* keep Go's 0-based byte offsets (all characters modelled are ASCII).     *)
(***************************************************************************)
EXTENDS Integers, Sequences, FiniteSets, TLC

\* ------------------------------------------------------------------------
\* Characters and bounded inputs
\* ------------------------------------------------------------------------
SP == " "
NL == "\n"
BS == "\\"
LB == "{"
RB == "}"

\* Longest input text enumerated.
MaxLen == 3

\* Characters the input texts are built from.
Alphabet == {SP, NL, BS, "n", "p", "a", LB, RB}

RECURSIVE TextsOfLen(_)
TextsOfLen(k) ==
    IF k = 0 THEN {<<>>}
    ELSE {Append(t, c) : t \in TextsOfLen(k - 1), c \in Alphabet}

\* A few longer dialog texts, so that runs with several breaks on one
\* paragraph and after a paragraph break are covered as well.
LongTexts ==
    { <<"a", SP, "a", SP, "a">>,
      <<"a", SP, "a", SP, "a", SP, "a">>,
      <<"a", SP, "a", BS, "p", "a", SP, "a", SP, "a">>,
      <<"a", BS, "l", "a", SP, "a">>,
      <<LB, "a", SP, "a", RB, "a", "a", SP, "a">>,
      <<LB, "a", LB, "a", RB, "a", RB, SP, "a">>,
      <<BS, BS, "a", BS, "n">> }

Texts == UNION {TextsOfLen(k) : k \in 0..MaxLen} \cup LongTexts

MaxWidths == {-1, 0, 30}

testFontID == "TEST"

\* Font ids the calls pass: none, the test font, and a configured name.
FontIDs == {"", testFontID, "A"}

\* Width keys: a single character, a whole control code, or "default".
DefaultKey == <<"d", "e", "f", "a", "u", "l", "t">>

\* Font tables the calls run against.  Fonts maps a font id to its record;
\* Widths maps a key (a character sequence) to a pixel width.  The tables
\* are: one without fonts; one whose font "A" has no "default" entry and
\* whose default font "B" differs from it; one with entries named like the
\* test font and like the empty font id.
FontTables ==
    { [DefaultFontID |-> "", Fonts |-> [f \in {} |-> 0]],
      [DefaultFontID |-> "B",
       Fonts |-> [f \in {"A", "B"} |->
          IF f = "A"
          THEN [Widths |-> (<<"a">> :> 10) @@ (<<SP>> :> 5) @@ (<<LB, "a", RB>> :> 20),
                MaxLineLength |-> 30]
          ELSE [Widths |-> (<<"a">> :> 30) @@ (<<"n">> :> 30) @@ (<<SP>> :> 30)
                            @@ (DefaultKey :> 30),
                MaxLineLength |-> 30]]],
      [DefaultFontID |-> "A",
       Fonts |-> [f \in {"A", testFontID, ""} |->
          IF f = "A"
          THEN [Widths |-> (<<"a">> :> 20) @@ (DefaultKey :> 10),
                MaxLineLength |-> 30]
          ELSE IF f = testFontID
          THEN [Widths |-> (<<"a">> :> 30) @@ (<<SP>> :> 0) @@ (DefaultKey :> 20),
                MaxLineLength |-> 0]
          ELSE [Widths |-> (DefaultKey :> 10), MaxLineLength |-> 0]]] }

\* ------------------------------------------------------------------------
\* Helpers on character sequences
\* ------------------------------------------------------------------------
\* Go's text[a:b]
Slice(s, a, b) == SubSeq(s, a + 1, b)

\* strings.ReplaceAll(text, "\n", " ")
ReplaceNewlines(text) == [i \in 1..Len(text) |-> IF text[i] = NL THEN SP ELSE text[i]]

\* ------------------------------------------------------------------------
\* getNextWord
\* ------------------------------------------------------------------------
\* ScanChar with '}' lowering the nesting counter also at zero.
ScanChar_NoFloor(text, pos, s) ==
    LET char == text[pos + 1] IN
    IF s.endOnNext
    THEN [s EXCEPT !.done = TRUE, !.ret = <<pos, Slice(text, s.startPos, pos)>>]
    ELSE IF s.escape /\ char \in {"l", "n", "p"}
    THEN IF s.foundRegularRune
         THEN [s EXCEPT !.done = TRUE,
                        !.ret = <<s.endPos, Slice(text, s.startPos, s.endPos)>>]
         ELSE [s EXCEPT !.endOnNext = TRUE]
    ELSE IF char = BS /\ s.controlCodeLevel = 0
    THEN [s EXCEPT !.escape = TRUE,
                   !.startPos = IF ~s.foundRegularRune THEN pos ELSE @,
                   !.foundNonSpace = TRUE,
                   !.endPos = pos]
    ELSE IF char = SP
         THEN IF s.foundNonSpace /\ s.controlCodeLevel = 0
              THEN [s EXCEPT !.done = TRUE,
                             !.ret = <<pos, Slice(text, s.startPos, pos)>>]
              ELSE [s EXCEPT !.escape = FALSE]
         ELSE [s EXCEPT !.startPos = IF ~s.foundNonSpace THEN pos ELSE @,
                        !.foundRegularRune = TRUE,
                        !.foundNonSpace = TRUE,
                        !.controlCodeLevel =
                            IF char = LB THEN @ + 1
                            ELSE IF char = RB THEN @ - 1
                            ELSE @,
                        !.escape = FALSE]

\* One iteration of the range loop of getNextWord at offset pos; s holds
\* the locals, and done/ret the return taken inside the loop, if any.
ScanChar(text, pos, s) ==
    LET char == text[pos + 1] IN
    IF s.endOnNext
    THEN [s EXCEPT !.done = TRUE, !.ret = <<pos, Slice(text, s.startPos, pos)>>]
    ELSE IF s.escape /\ char \in {"l", "n", "p"}
    THEN IF s.foundRegularRune
         THEN [s EXCEPT !.done = TRUE,
                        !.ret = <<s.endPos, Slice(text, s.startPos, s.endPos)>>]
         ELSE [s EXCEPT !.endOnNext = TRUE]
    ELSE IF char = BS /\ s.controlCodeLevel = 0
    THEN [s EXCEPT !.escape = TRUE,
                   !.startPos = IF ~s.foundRegularRune THEN pos ELSE @,
                   !.foundNonSpace = TRUE,
                   !.endPos = pos]
    ELSE IF char = SP
         THEN IF s.foundNonSpace /\ s.controlCodeLevel = 0
              THEN [s EXCEPT !.done = TRUE,
                             !.ret = <<pos, Slice(text, s.startPos, pos)>>]
              ELSE [s EXCEPT !.escape = FALSE]
         ELSE [s EXCEPT !.startPos = IF ~s.foundNonSpace THEN pos ELSE @,
                        !.foundRegularRune = TRUE,
                        !.foundNonSpace = TRUE,
                        !.controlCodeLevel =
                            IF char = LB THEN @ + 1
                            ELSE IF char = RB /\ @ > 0 THEN @ - 1
                            ELSE @,
                        !.escape = FALSE]

RECURSIVE ScanFrom(_, _, _)
ScanFrom(text, pos, s) ==
    IF s.done THEN s
    ELSE IF pos >= Len(text) THEN s
    ELSE ScanFrom(text, pos + 1, ScanChar(text, pos, s))

\* getNextWord returning the offset where the word starts instead of the
\* offset where it ends.
getNextWord_StartOffset(text) ==
    LET s0 == [escape |-> FALSE, endPos |-> 0, startPos |-> 0,
               foundNonSpace |-> FALSE, foundRegularRune |-> FALSE,
               endOnNext |-> FALSE, controlCodeLevel |-> 0,
               done |-> FALSE, ret |-> <<0, <<>>>>]
        s == ScanFrom(text, 0, s0)
    IN  IF s.done THEN <<s.startPos, s.ret[2]>>
        ELSE IF ~s.foundNonSpace THEN <<Len(text), <<>>>>
        ELSE <<Len(text), Slice(text, s.startPos, Len(text))>>

\* getNextWord(text): <<bytes consumed, word>>
getNextWord(text) ==
    LET s0 == [escape |-> FALSE, endPos |-> 0, startPos |-> 0,
               foundNonSpace |-> FALSE, foundRegularRune |-> FALSE,
               endOnNext |-> FALSE, controlCodeLevel |-> 0,
               done |-> FALSE, ret |-> <<0, <<>>>>]
        s == ScanFrom(text, 0, s0)
    IN  IF s.done THEN s.ret
        ELSE IF ~s.foundNonSpace THEN <<Len(text), <<>>>>
        ELSE <<Len(text), Slice(text, s.startPos, Len(text))>>

isLineBreak(word) == word = <<BS, "n">> \/ word = <<BS, "l">> \/ word = <<BS, "p">>

isParagraphBreak(word) == word = <<BS, "p">>

\* ------------------------------------------------------------------------
\* Width lookup
\* ------------------------------------------------------------------------
fallbackWidth == 0

isFontIDValid(fc, fontID) == fontID \in DOMAIN fc.Fonts

\* The lookup falling back to the table's default font.
readWidthFromFontConfig_DefaultFont(fc, value, fontID) ==
    LET id == IF fontID \in DOMAIN fc.Fonts THEN fontID ELSE fc.DefaultFontID IN
    IF id \notin DOMAIN fc.Fonts THEN fallbackWidth
    ELSE LET font == fc.Fonts[id] IN
         IF value \notin DOMAIN font.Widths
         THEN IF DefaultKey \notin DOMAIN font.Widths
              THEN IF fc.DefaultFontID \in DOMAIN fc.Fonts
                      /\ value \in DOMAIN fc.Fonts[fc.DefaultFontID].Widths
                   THEN fc.Fonts[fc.DefaultFontID].Widths[value]
                   ELSE fallbackWidth
              ELSE font.Widths[DefaultKey]
         ELSE font.Widths[value]

readWidthFromFontConfig(fc, value, fontID) ==
    IF fontID \notin DOMAIN fc.Fonts THEN fallbackWidth
    ELSE LET font == fc.Fonts[fontID] IN
         IF value \notin DOMAIN font.Widths
         THEN IF DefaultKey \notin DOMAIN font.Widths THEN fallbackWidth
              ELSE font.Widths[DefaultKey]
         ELSE font.Widths[value]

\* The rune width without the test-font shortcut.
getRunePixelWidth_NoTestFont(fc, r, fontID) ==
    readWidthFromFontConfig(fc, <<r>>, fontID)

getRunePixelWidth(fc, r, fontID) ==
    IF fontID = testFontID THEN 10
    ELSE readWidthFromFontConfig(fc, <<r>>, fontID)

getControlCodePixelWidth(fc, code, fontID) ==
    IF fontID = testFontID THEN 100
    ELSE readWidthFromFontConfig(fc, code, fontID)

\* Offset of the first c in word at or after offset from, or -1.
RECURSIVE IndexFrom(_, _, _)
IndexFrom(word, c, from) ==
    IF from >= Len(word) THEN -1
    ELSE IF word[from + 1] = c THEN from
    ELSE IndexFrom(word, c, from + 1)

\* regexp `{[^}]*}` FindAllStringIndex(word, -1) from offset from: the
\* leftmost matches, each from a '{' to the first '}' after it.
RECURSIVE FindAllControlCodes(_, _)
FindAllControlCodes(word, from) ==
    LET open == IndexFrom(word, LB, from)
        close == IF open < 0 THEN -1 ELSE IndexFrom(word, RB, open + 1)
    IN  IF open < 0 \/ close < 0 THEN <<>>
        ELSE <<(<<open, close + 1>>)>> \o FindAllControlCodes(word, close + 1)

\* The characters of word outside every match.
StripMatches(word, positions) ==
    SelectSeq([i \in 1..Len(word) |->
                  IF \E k \in 1..Len(positions) :
                        positions[k][1] < i /\ i <= positions[k][2]
                  THEN <<>> ELSE <<word[i]>>],
              LAMBDA x : x # <<>>)

RECURSIVE SumCodeWidths(_, _, _, _)
SumCodeWidths(fc, word, positions, fontID) ==
    IF positions = <<>> THEN 0
    ELSE getControlCodePixelWidth(fc, Slice(word, Head(positions)[1], Head(positions)[2]), fontID)
         + SumCodeWidths(fc, word, Tail(positions), fontID)

\* processControlCodes returning the word with its control codes left in.
processControlCodes_NoStrip(fc, word, fontID) ==
    <<word, SumCodeWidths(fc, word, FindAllControlCodes(word, 0), fontID)>>

\* processControlCodes(word, fontID): <<stripped word, width of the codes>>
processControlCodes(fc, word, fontID) ==
    LET positions == FindAllControlCodes(word, 0)
        stripped == StripMatches(word, positions)
    IN  <<[i \in 1..Len(stripped) |-> stripped[i][1]],
          SumCodeWidths(fc, word, positions, fontID)>>

RECURSIVE SumRuneWidths(_, _, _)
SumRuneWidths(fc, word, fontID) ==
    IF word = <<>> THEN 0
    ELSE getRunePixelWidth(fc, Head(word), fontID) + SumRuneWidths(fc, Tail(word), fontID)

getWordPixelWidth(fc, word, fontID) ==
    LET pc == processControlCodes(fc, word, fontID)
    IN  pc[2] + SumRuneWidths(fc, pc[1], fontID)

\* ------------------------------------------------------------------------
\* FormatText
\* ------------------------------------------------------------------------
\* The guard without the exemption of the test font.
UnknownFontID_NoTestFont(fc, fontID) ==
    ~isFontIDValid(fc, fontID) /\ Len(fontID) > 0

\* The guard without the exemption of the empty font id.
UnknownFontID_NoEmpty(fc, fontID) ==
    ~isFontIDValid(fc, fontID) /\ fontID # testFontID

\* The guard of the early return of FormatText.
UnknownFontID(fc, fontID) ==
    ~isFontIDValid(fc, fontID) /\ Len(fontID) > 0 /\ fontID # testFontID

\* The locals of FormatText before the first loop iteration.  marks is the
\* history of the breaks written to formattedSb: for each, the offset of
\* its marker and whether the wrap inserted it.
InitLocals(text) ==
    [text |-> ReplaceNewlines(text), formattedSb |-> <<>>, curLineSb |-> <<>>,
     curWidth |-> 0, isFirstLine |-> TRUE, isFirstWord |-> TRUE, pos |-> 0,
     marks |-> <<>>]

\* The token the next loop iteration reads: getNextWord(text[pos:]).
NextToken(L) == getNextWord(Slice(L.text, L.pos, Len(L.text)))

\* The loop runs another iteration.
LoopContinues(L) == L.pos < Len(L.text) /\ Len(NextToken(L)[2]) # 0

\* wordWidth with the space counted before the first word of a line too.
WordWidth_AlwaysSpace(fc, fontID, L, word) ==
    getRunePixelWidth(fc, SP, fontID) + getWordPixelWidth(fc, word, fontID)

\* wordWidth as computed for a word that is not a line break.
WordWidth(fc, fontID, L, word) ==
    (IF ~L.isFirstWord THEN getRunePixelWidth(fc, SP, fontID) ELSE 0)
    + getWordPixelWidth(fc, word, fontID)

\* The overflow test on the word alone, the width of the line left out.
Overflows_WordOnly(fc, maxWidth, fontID, L, word) ==
    WordWidth(fc, fontID, L, word) > maxWidth /\ Len(L.curLineSb) > 0

\* The overflow test without the guard on the line buffer.
Overflows_EmptyLine(fc, maxWidth, fontID, L, word) ==
    L.curWidth + WordWidth(fc, fontID, L, word) > maxWidth

\* The word does not fit on a non-empty line.
Overflows(fc, maxWidth, fontID, L, word) ==
    L.curWidth + WordWidth(fc, fontID, L, word) > maxWidth /\ Len(L.curLineSb) > 0

\* The break branch without the reset of isFirstWord.
BreakBranch_KeepsFirstWord(L, endPos, word) ==
    [L EXCEPT !.pos = @ + endPos,
              !.curWidth = 0,
              !.formattedSb = @ \o L.curLineSb \o word \o <<NL>>,
              !.isFirstLine = isParagraphBreak(word),
              !.curLineSb = <<>>,
              !.marks = Append(@, [auto |-> FALSE,
                                   at |-> Len(L.formattedSb) + Len(L.curLineSb)])]

\* Loop body, branch isLineBreak(word).
BreakBranch(L, endPos, word) ==
    [L EXCEPT !.pos = @ + endPos,
              !.curWidth = 0,
              !.formattedSb = @ \o L.curLineSb \o word \o <<NL>>,
              !.isFirstLine = isParagraphBreak(word),
              !.isFirstWord = TRUE,
              !.curLineSb = <<>>,
              !.marks = Append(@, [auto |-> FALSE,
                                   at |-> Len(L.formattedSb) + Len(L.curLineSb)])]

\* The wrap branch without the reset of isFirstLine.
WrapBranch_KeepsFirstLine(L, endPos, word, wordWidth) ==
    [L EXCEPT !.pos = @ + endPos,
              !.formattedSb = @ \o L.curLineSb
                                \o (IF L.isFirstLine THEN <<BS, "n">> ELSE <<BS, "l">>)
                                \o <<NL>>,
              !.isFirstWord = FALSE,
              !.curLineSb = word,
              !.curWidth = wordWidth,
              !.marks = Append(@, [auto |-> TRUE,
                                   at |-> Len(L.formattedSb) + Len(L.curLineSb)])]

\* Loop body, branch of a word that overflows the line.
WrapBranch(L, endPos, word, wordWidth) ==
    [L EXCEPT !.pos = @ + endPos,
              !.formattedSb = @ \o L.curLineSb
                                \o (IF L.isFirstLine THEN <<BS, "n">> ELSE <<BS, "l">>)
                                \o <<NL>>,
              !.isFirstLine = FALSE,
              !.isFirstWord = FALSE,
              !.curLineSb = word,
              !.curWidth = wordWidth,
              !.marks = Append(@, [auto |-> TRUE,
                                   at |-> Len(L.formattedSb) + Len(L.curLineSb)])]

\* The append branch leaving isFirstWord as it was.
AppendBranch_KeepsFirstWord(L, endPos, word, wordWidth) ==
    [L EXCEPT !.pos = @ + endPos,
              !.curWidth = @ + wordWidth,
              !.curLineSb = @ \o (IF ~L.isFirstWord THEN <<SP>> ELSE <<>>) \o word]

\* Loop body, branch of a word that is added to the line.
AppendBranch(L, endPos, word, wordWidth) ==
    [L EXCEPT !.pos = @ + endPos,
              !.curWidth = @ + wordWidth,
              !.curLineSb = @ \o (IF ~L.isFirstWord THEN <<SP>> ELSE <<>>) \o word,
              !.isFirstWord = FALSE]

\* One iteration of the loop of FormatText.
LoopBody(fc, maxWidth, fontID, L) ==
    LET tok == NextToken(L)
        endPos == tok[1]
        word == tok[2]
    IN  IF isLineBreak(word) THEN BreakBranch(L, endPos, word)
        ELSE IF Overflows(fc, maxWidth, fontID, L, word)
        THEN WrapBranch(L, endPos, word, WordWidth(fc, fontID, L, word))
        ELSE AppendBranch(L, endPos, word, WordWidth(fc, fontID, L, word))

RECURSIVE RunLoop(_, _, _, _)
RunLoop(fc, maxWidth, fontID, L) ==
    IF LoopContinues(L) THEN RunLoop(fc, maxWidth, fontID, LoopBody(fc, maxWidth, fontID, L))
    ELSE L

\* The string returned after the loop.
Returned(L) == L.formattedSb \o L.curLineSb

\* FormatText as a function of its arguments: the returned string and
\* whether an error is returned.
FormatText(fc, text, maxWidth, fontID) ==
    IF UnknownFontID(fc, fontID) THEN [out |-> <<>>, err |-> TRUE]
    ELSE [out |-> Returned(RunLoop(fc, maxWidth, fontID, InitLocals(text))),
          err |-> FALSE]

\* ------------------------------------------------------------------------
\* One call of FormatText, step by step
\* ------------------------------------------------------------------------
VARIABLES
    fc,         \* the receiver: the font table
    maxWidth,   \* argument
    fontID,     \* argument
    pc,         \* "call", "loop" or "done"
    L,          \* text (argument, then normalised) and the locals
    out,        \* returned string
    err,        \* an error is returned
    peer        \* a second call on the same table: its arguments, pc,
                \* locals and result; pc "idle" when there is none

\* The locals a call starts with; the text is still the argument.
FreshLocals(t) ==
    [text |-> t, formattedSb |-> <<>>, curLineSb |-> <<>>, curWidth |-> 0,
     isFirstLine |-> TRUE, isFirstWord |-> TRUE, pos |-> 0, marks |-> <<>>]

\* No second call is running.
NoPeer ==
    [pc |-> "idle", maxWidth |-> 0, fontID |-> "", L |-> FreshLocals(<<>>),
     out |-> <<>>, err |-> FALSE]

vars == <<fc, maxWidth, fontID, pc, L, out, err, peer>>

args == <<fc, maxWidth, fontID>>

Init ==
    /\ fc \in FontTables
    /\ maxWidth \in MaxWidths
    /\ fontID \in FontIDs
    /\ pc = "call"
    /\ \E t \in Texts :
          L = [text |-> t, formattedSb |-> <<>>, curLineSb |-> <<>>, curWidth |-> 0,
               isFirstLine |-> TRUE, isFirstWord |-> TRUE, pos |-> 0, marks |-> <<>>]
    /\ out = <<>>
    /\ err = FALSE
    /\ peer = NoPeer

\* Lines 43-51: the font id is rejected.
Reject ==
    /\ pc = "call"
    /\ UnknownFontID(fc, fontID)
    /\ pc' = "done"
    /\ out' = <<>>
    /\ err' = TRUE
    /\ UNCHANGED <<peer, args, L>>

\* Lines 53-60: the text is normalised and the locals are set up.
Enter ==
    /\ pc = "call"
    /\ ~UnknownFontID(fc, fontID)
    /\ pc' = "loop"
    /\ L' = InitLocals(L.text)
    /\ UNCHANGED <<peer, args, out, err>>

\* Lines 61-81: an iteration that reads an authored break.
LineBreak ==
    /\ pc = "loop"
    /\ LoopContinues(L)
    /\ isLineBreak(NextToken(L)[2])
    /\ L' = LoopBody(fc, maxWidth, fontID, L)
    /\ UNCHANGED <<peer, args, pc, out, err>>

\* Lines 61-69, 83-100: an iteration that wraps before the word.
WrapWord ==
    /\ pc = "loop"
    /\ LoopContinues(L)
    /\ ~isLineBreak(NextToken(L)[2])
    /\ Overflows(fc, maxWidth, fontID, L, NextToken(L)[2])
    /\ L' = LoopBody(fc, maxWidth, fontID, L)
    /\ UNCHANGED <<peer, args, pc, out, err>>

\* Lines 61-69, 83-88, 101-108: an iteration that adds the word to the line.
AppendWord ==
    /\ pc = "loop"
    /\ LoopContinues(L)
    /\ ~isLineBreak(NextToken(L)[2])
    /\ ~Overflows(fc, maxWidth, fontID, L, NextToken(L)[2])
    /\ L' = LoopBody(fc, maxWidth, fontID, L)
    /\ UNCHANGED <<peer, args, pc, out, err>>

\* Lines 61, 66-68, 112-116: the loop ends and the string is returned.
Return ==
    /\ pc = "loop"
    /\ ~LoopContinues(L)
    /\ pc' = "done"
    /\ out' = Returned(L)
    /\ UNCHANGED <<peer, args, L, err>>

Next == Reject \/ Enter \/ LineBreak \/ WrapWord \/ AppendWord \/ Return

Spec == Init /\ [][Next]_vars

\* ------------------------------------------------------------------------
\* Two calls of FormatText on one font table
\* ------------------------------------------------------------------------
\* Texts and widths of the concurrent calls.
ConcTexts ==
    { <<"n">>,
      <<"a", SP, "a", SP, "a">>,
      <<"a", SP, "a", BS, "p", "a", SP, "a", SP, "a">>,
      <<LB, "a", SP, "a", RB, "a", "a", SP, "a">> }

ConcWidths == {0, 30}

InitConc ==
    /\ fc \in FontTables
    /\ maxWidth \in ConcWidths
    /\ fontID \in FontIDs
    /\ pc = "call"
    /\ \E t \in ConcTexts : L = FreshLocals(t)
    /\ out = <<>>
    /\ err = FALSE
    /\ \E t \in ConcTexts, w \in ConcWidths, f \in FontIDs :
          peer = [pc |-> "call", maxWidth |-> w, fontID |-> f, L |-> FreshLocals(t),
                  out |-> <<>>, err |-> FALSE]

\* The locals of lines 55-60 with the first call's locals in their place,
\* as if they were declared once for all calls.
PeerLocals_Shared(own, first) == first

\* The locals the second call works on: text and the variables of lines
\* 55-60 are the call's own.
PeerLocals(own, first) == own

first == <<fc, maxWidth, fontID, pc, L, out, err>>

PeerReject ==
    /\ peer.pc = "call"
    /\ UnknownFontID(fc, peer.fontID)
    /\ peer' = [peer EXCEPT !.pc = "done", !.out = <<>>, !.err = TRUE]
    /\ UNCHANGED first

PeerEnter ==
    /\ peer.pc = "call"
    /\ ~UnknownFontID(fc, peer.fontID)
    /\ peer' = [peer EXCEPT !.pc = "loop", !.L = InitLocals(peer.L.text)]
    /\ UNCHANGED first

PeerIterate ==
    /\ peer.pc = "loop"
    /\ LoopContinues(PeerLocals(peer.L, L))
    /\ peer' = [peer EXCEPT !.L = LoopBody(fc, peer.maxWidth, peer.fontID,
                                           PeerLocals(peer.L, L))]
    /\ UNCHANGED first

PeerReturn ==
    /\ peer.pc = "loop"
    /\ ~LoopContinues(PeerLocals(peer.L, L))
    /\ peer' = [peer EXCEPT !.pc = "done", !.out = Returned(PeerLocals(peer.L, L))]
    /\ UNCHANGED first

NextConc ==
    \/ Reject \/ Enter \/ LineBreak \/ WrapWord \/ AppendWord \/ Return
    \/ PeerReject \/ PeerEnter \/ PeerIterate \/ PeerReturn

SpecConc == InitConc /\ [][NextConc]_vars

TypeOK ==
    /\ pc \in {"call", "loop", "done"}
    /\ err \in BOOLEAN
    /\ L.pos \in 0..Len(L.text)

\* ------------------------------------------------------------------------
\* Helpers of the properties
\* ------------------------------------------------------------------------
IsPrefix(p, s) == Len(p) <= Len(s) /\ SubSeq(s, 1, Len(p)) = p

IsSuffix(p, s) == Len(p) <= Len(s) /\ SubSeq(s, Len(s) - Len(p) + 1, Len(s)) = p

IsInfix(p, s) == \E i \in 0..(Len(s) - Len(p)) : SubSeq(s, i + 1, i + Len(p)) = p

Drop(s, n) == SubSeq(s, n + 1, Len(s))

\* The tokens the loop of FormatText reads from the normalised text.
RECURSIVE Tokens(_)
Tokens(text) ==
    LET tok == getNextWord(text) IN
    IF Len(text) = 0 \/ Len(tok[2]) = 0 THEN <<>>
    ELSE <<tok[2]>> \o Tokens(Drop(text, tok[1]))

\* The words of text delimited by the spaces outside braces.
RECURSIVE SpaceWords(_, _, _)
SpaceWords(text, cur, level) ==
    IF text = <<>> THEN (IF cur = <<>> THEN {} ELSE {cur})
    ELSE LET c == Head(text) IN
         IF c = SP /\ level = 0
         THEN (IF cur = <<>> THEN {} ELSE {cur}) \cup SpaceWords(Tail(text), <<>>, 0)
         ELSE SpaceWords(Tail(text), Append(cur, c),
                         IF c = LB THEN level + 1
                         ELSE IF c = RB /\ level > 0 THEN level - 1 ELSE level)

\* What stands between two consecutive words of the output.
WordSeparators == {<<SP>>, <<BS, "n", NL>>, <<BS, "l", NL>>}

\* o is the tokens toks in order, each break followed by a newline and
\* consecutive words separated by a space or by a break marker and a newline.
RECURSIVE Renders(_, _, _)
Renders(o, toks, afterWord) ==
    IF toks = <<>> THEN o = <<>>
    ELSE LET t == Head(toks) IN
         IF isLineBreak(t)
         THEN IsPrefix(t \o <<NL>>, o) /\ Renders(Drop(o, Len(t) + 1), Tail(toks), FALSE)
         ELSE \E sep \in (IF afterWord THEN WordSeparators ELSE {<<>>}) :
                 /\ IsPrefix(sep \o t, o)
                 /\ Renders(Drop(o, Len(sep) + Len(t)), Tail(toks), TRUE)

Returns == pc = "done" /\ ~err

\* w with the hard newline that follows each authored break (a backslash
\* outside braces followed by l, n or p) put in.
RECURSIVE WithBreakNewlines(_, _)
WithBreakNewlines(w, level) ==
    IF w = <<>> THEN <<>>
    ELSE LET c == Head(w) IN
         IF c = BS /\ level = 0 /\ Len(w) >= 2 /\ w[2] \in {"l", "n", "p"}
         THEN <<c, w[2], NL>> \o WithBreakNewlines(Drop(w, 2), 0)
         ELSE <<c>> \o WithBreakNewlines(Tail(w),
                          IF c = LB THEN level + 1
                          ELSE IF c = RB /\ level > 0 THEN level - 1 ELSE level)

\* The two characters of the k-th break written to formattedSb.
MarkerAt(k) == SubSeq(L.formattedSb, L.marks[k].at + 1, L.marks[k].at + 2)

LastMark == L.marks[Len(L.marks)]

\* The token read by the iteration about to run.
Tok == NextToken(L)[2]

\* The loop is about to run an iteration.
AtIteration == pc = "loop" /\ LoopContinues(L)

\* Width of a word under the test font, from the text alone: 100 for each
\* span from a '{' to the next '}', 10 for each character outside.
RECURSIVE TestFontWidth(_)
TestFontWidth(word) ==
    IF word = <<>> THEN 0
    ELSE IF Head(word) = LB /\ \E i \in 2..Len(word) : word[i] = RB
    THEN 100 + TestFontWidth(Drop(word, 1 + IndexFrom(word, RB, 1)))
    ELSE 10 + TestFontWidth(Tail(word))

\* The fallback chain of the width lookup, within the one font fontID.
ChainWidth(table, key, font) ==
    IF font \notin DOMAIN table.Fonts THEN 0
    ELSE LET w == table.Fonts[font].Widths IN
         IF key \in DOMAIN w THEN w[key]
         ELSE IF DefaultKey \in DOMAIN w THEN w[DefaultKey]
         ELSE 0

\* The width keys a text gives rise to: its characters and control codes.
KeysOf(text) ==
    {<<text[i]>> : i \in 1..Len(text)}
    \cup {Slice(text, m[1], m[2]) : m \in {FindAllControlCodes(text, 0)[k] :
                                             k \in 1..Len(FindAllControlCodes(text, 0))}}

\* ------------------------------------------------------------------------
\* Properties
\* ------------------------------------------------------------------------
\* The output is the tokens read by the loop, in order and each intact; a
\* hard newline follows each authored break, and between two consecutive
\* words stands a single space or a break marker with its newline.
TokensIntact ==
    Returns => Renders(out, Tokens(L.text), FALSE)

\* C1: FormatText returns an error, with an empty string, exactly when
\* fontID is non-empty, is not "TEST" and is not a key of the font table.
C1_ErrorIffUnknownFont ==
    pc = "done" =>
        /\ err <=> (fontID # "" /\ fontID # "TEST" /\ fontID \notin DOMAIN fc.Fonts)
        /\ err => out = <<>>

C1_Witness ==
    /\ pc = "done" /\ err /\ fontID = "A" /\ Len(L.text) > 0

\* C2: no word splitting: every space-delimited word of the input (spaces
\* inside braces do not delimit) appears intact and contiguous in the
\* output, the only insertion being the hard newline that follows an
\* authored break inside the word.
C2_NoWordSplitting ==
    Returns => \A w \in SpaceWords(L.text, <<>>, 0) :
                  IsInfix(WithBreakNewlines(w, 0), out)

\* C3: idempotent re-wrap: formatting the returned string again (its hard
\* newlines become spaces in the normalisation) with the same maxWidth and
\* fontID returns the same string.
C3_IdempotentRewrap ==
    Returns => FormatText(fc, out, maxWidth, fontID) = [out |-> out, err |-> FALSE]

\* C4: an auto-inserted marker is \n exactly when no break was written
\* since the start or since the last authored \p, and \l otherwise; so
\* between two paragraph starts no auto-inserted \n follows another
\* auto-inserted marker.
C4_MarkerChoice ==
    /\ \A k \in 1..Len(L.marks) :
          L.marks[k].auto =>
             MarkerAt(k) = IF k = 1 \/ (~L.marks[k - 1].auto /\ MarkerAt(k - 1) = <<BS, "p">>)
                           THEN <<BS, "n">> ELSE <<BS, "l">>
    /\ \A i, j \in 1..Len(L.marks) :
          (/\ i < j /\ L.marks[i].auto /\ L.marks[j].auto
           /\ \A m \in (i + 1)..(j - 1) : L.marks[m].auto \/ MarkerAt(m) # <<BS, "p">>)
          => MarkerAt(j) = <<BS, "l">>

C4_Witness ==
    \E i, j, k \in 1..Len(L.marks) :
       /\ i < j /\ k = j + 1
       /\ ~L.marks[i].auto /\ MarkerAt(i) = <<BS, "p">>
       /\ L.marks[j].auto /\ MarkerAt(j) = <<BS, "n">>
       /\ L.marks[k].auto /\ MarkerAt(k) = <<BS, "l">>
       /\ \E h \in 1..(i - 1) : L.marks[h].auto

\* C5: an iteration that reads an authored break appends the current line,
\* the token and a hard newline, and leaves width 0, an empty line,
\* isFirstWord true and isFirstLine true exactly for \p; the word read next
\* starts the line without a space and without an interword-space width.
C5_BreakPassthrough ==
    [][ /\ (AtIteration /\ isLineBreak(Tok)) =>
            /\ L'.formattedSb = L.formattedSb \o L.curLineSb \o Tok \o <<NL>>
            /\ L'.curWidth = 0
            /\ L'.curLineSb = <<>>
            /\ L'.isFirstWord
            /\ L'.isFirstLine <=> (Tok = <<BS, "p">>)
        /\ (/\ AtIteration /\ ~isLineBreak(Tok)
            /\ L.marks # <<>> /\ ~LastMark.auto /\ L.curLineSb = <<>>) =>
            /\ L'.curLineSb = Tok
            /\ L'.curWidth = getWordPixelWidth(fc, Tok, fontID)
            /\ L'.formattedSb = L.formattedSb
      ]_vars

C5_Witness ==
    /\ pc = "loop"
    /\ L.marks # <<>> /\ ~LastMark.auto /\ MarkerAt(Len(L.marks)) = <<BS, "p">>
    /\ Len(L.marks) >= 2
    /\ L.isFirstLine
    /\ L.curLineSb = <<"a">>
    /\ IsSuffix(<<"a", BS, "p", NL>>, L.formattedSb)

\* C6: under the test font a word weighs 100 for each control-code span
\* plus 10 for each character outside the spans, and the word is put on
\* the line with its control codes unchanged.
C6_ControlCodeWidth ==
    [][ (AtIteration /\ fontID = "TEST" /\ ~isLineBreak(Tok)) =>
            /\ L'.curWidth = (IF Len(L'.marks) > Len(L.marks) THEN 0 ELSE L.curWidth)
                             + (IF L.isFirstWord THEN 0 ELSE 10)
                             + TestFontWidth(Tok)
            /\ IsSuffix(Tok, L'.curLineSb)
      ]_vars

C6_Witness ==
    /\ pc = "loop" /\ fontID = "TEST"
    /\ L.curLineSb = <<LB, "a", SP, "a", RB, "a", "a">>
    /\ L.curWidth = 120

\* C7: with the test font the result does not depend on the font table,
\* and every character of the text costs 10.
C7_TestFontIgnoresTable ==
    (pc = "done" /\ fontID = "TEST") =>
        /\ \A fc2 \in FontTables :
              FormatText(fc2, L.text, maxWidth, fontID) = [out |-> out, err |-> err]
        /\ \A i \in 1..Len(L.text) : getRunePixelWidth(fc, L.text[i], fontID) = 10
        /\ \A key \in KeysOf(L.text) : getControlCodePixelWidth(fc, key, fontID) = 100

C7_Witness ==
    /\ pc = "done" /\ fontID = "TEST"
    /\ "TEST" \in DOMAIN fc.Fonts
    /\ \E k \in 1..Len(L.marks) : L.marks[k].auto
    /\ \E i \in 1..Len(L.text) : L.text[i] = LB
    /\ maxWidth = 30

\* C8: for a font id other than the test font the width of a key is 0 if
\* the font is absent, else the font's entry for the key, else the same
\* font's "default" entry, else 0; no other font is consulted.
C8_FallbackChain ==
    fontID # "TEST" =>
        \A key \in KeysOf(L.text) \cup {<<SP>>} :
           readWidthFromFontConfig(fc, key, fontID) = ChainWidth(fc, key, fontID)

C8_Witness ==
    /\ pc = "loop" /\ fontID = "A" /\ "A" \in DOMAIN fc.Fonts
    /\ DefaultKey \notin DOMAIN fc.Fonts["A"].Widths
    /\ fc.DefaultFontID \in DOMAIN fc.Fonts
    /\ <<"n">> \in DOMAIN fc.Fonts[fc.DefaultFontID].Widths
    /\ L.curLineSb = <<"n", SP, "a">>
    /\ L.curWidth = 15

\* C9 as stated: with an empty fontID the call succeeds, every width is
\* the fallback width 0 whatever the table contains, and for maxWidth >= 0
\* no break is auto-inserted.
C9_EmptyFontAnyTable ==
    fontID = "" =>
        /\ ~err
        /\ L.curWidth = 0
        /\ pc = "done" => \A key \in KeysOf(L.text) \cup {<<SP>>} :
                             readWidthFromFontConfig(fc, key, fontID) = 0
        /\ maxWidth >= 0 => \A k \in 1..Len(L.marks) : ~L.marks[k].auto

\* C9, amended: the same, for a table without a font named by the empty
\* string.
C9_EmptyFontZeroWidths ==
    (fontID = "" /\ "" \notin DOMAIN fc.Fonts) =>
        /\ ~err
        /\ L.curWidth = 0
        /\ pc = "done" => \A key \in KeysOf(L.text) \cup {<<SP>>} :
                             readWidthFromFontConfig(fc, key, fontID) = 0
        /\ maxWidth >= 0 => \A k \in 1..Len(L.marks) : ~L.marks[k].auto

C9_Witness ==
    /\ pc = "done" /\ ~err /\ fontID = "" /\ "" \notin DOMAIN fc.Fonts
    /\ DOMAIN fc.Fonts # {}
    /\ maxWidth = 0
    /\ L.marks = <<>>
    /\ out = <<"a", SP, "a", SP, "a">>

\* C10: FormatText terminates: a non-empty token consumes at least one and
\* at most the remaining characters, an empty token is returned only for
\* a rest without a non-space character and ends the loop, pos grows with
\* every iteration without passing the end of the text.
C10_Terminates ==
    [][ /\ (pc = "loop" /\ L.pos < Len(L.text)) =>
              LET rest == Slice(L.text, L.pos, Len(L.text))
                  tok == getNextWord(rest)
              IN  /\ Len(tok[2]) # 0 => (1 <= tok[1] /\ tok[1] <= Len(rest))
                  /\ Len(tok[2]) = 0 => \A i \in 1..Len(rest) : rest[i] = SP
        /\ (pc = "loop" /\ pc' = "loop") =>
              (L'.pos > L.pos /\ L'.pos <= Len(L.text) /\ L'.text = L.text)
        /\ (pc = "loop" /\ ~LoopContinues(L)) => pc' = "done"
      ]_vars

C10_Witness ==
    /\ pc = "done" /\ ~err
    /\ 0 < L.pos /\ L.pos < Len(L.text)
    /\ Len(Tokens(L.text)) >= 1

\* C11: two calls that share the font table need no coordination: no step
\* writes the table, a step of one call leaves the other call's arguments,
\* locals and result alone, and under every interleaving each call returns
\* what FormatText returns for its arguments when it runs alone.
C11_ConcurrentCallsIndependent ==
    [][ /\ fc' = fc
        /\ (<<maxWidth, fontID, pc, L, out, err>>' # <<maxWidth, fontID, pc, L, out, err>>)
              => peer' = peer
        /\ pc' = "done" =>
              [out |-> out', err |-> err'] = FormatText(fc, L'.text, maxWidth', fontID')
        /\ peer'.pc = "done" =>
              [out |-> peer'.out, err |-> peer'.err]
                 = FormatText(fc, peer'.L.text, peer'.maxWidth, peer'.fontID)
      ]_vars

C11_Witness ==
    /\ pc = "done" /\ peer.pc = "done" /\ ~err /\ ~peer.err
    /\ out # peer.out
    /\ \E k \in 1..Len(L.marks) : L.marks[k].auto
    /\ \E k \in 1..Len(peer.L.marks) : peer.L.marks[k].auto
    /\ "A" \in DOMAIN fc.Fonts

\* Pixel width of the content of a line: its characters and control codes,
\* the written spaces included.
TrueWidth(line) == getWordPixelWidth(fc, line, fontID)

SpaceWidth == getRunePixelWidth(fc, SP, fontID)

\* The current line was started by an auto-inserted break.
AfterAutoBreak == L.marks # <<>> /\ LastMark.auto

\* C12: on a line started by an auto-inserted break curWidth is the true
\* width of the line plus one interword-space width, from the word placed
\* by the wrap until the next break; on a line started at the beginning of
\* the text or after an authored break curWidth is the true width.
C12_WidthQuirk ==
    pc \in {"loop", "done"} =>
        IF AfterAutoBreak
        THEN /\ L.curLineSb # <<>>
             /\ L.curWidth = TrueWidth(L.curLineSb) + SpaceWidth
        ELSE L.curWidth = TrueWidth(L.curLineSb)

\* A wrapped line holding two words, the space width not zero.
C12_Witness ==
    /\ pc = "loop"
    /\ AfterAutoBreak
    /\ SpaceWidth > 0
    /\ Len(Tokens(L.curLineSb)) >= 2
    /\ L.curWidth = TrueWidth(L.curLineSb) + SpaceWidth
    /\ L.curWidth # TrueWidth(L.curLineSb)

\* The nesting counter of getNextWord before it reads r[i] (0-based).
RECURSIVE Level(_, _)
Level(r, i) ==
    IF i = 0 THEN 0
    ELSE LET l == Level(r, i - 1)
             c == r[i]
         IN  IF c = LB THEN l + 1 ELSE IF c = RB /\ l > 0 THEN l - 1 ELSE l

\* r[i], r[i+1] is a backslash outside braces followed by l, n or p.
IsBreakEscapeAt(r, i) ==
    /\ i >= 0 /\ i + 2 <= Len(r)
    /\ r[i + 1] = BS /\ r[i + 2] \in {"l", "n", "p"}
    /\ Level(r, i) = 0

\* r[j] is an ordinary character: no space and no backslash outside braces.
Ordinary(r, j) == r[j + 1] # SP /\ ~(r[j + 1] = BS /\ Level(r, j) = 0)

\* r[j] is a space outside braces.
IsSeparator(r, j) == r[j + 1] = SP /\ Level(r, j) = 0

\* Offset of the first character of r that is no space, Len(r) if none.
RECURSIVE LeadingSpaces(_)
LeadingSpaces(r) ==
    IF r # <<>> /\ Head(r) = SP THEN 1 + LeadingSpaces(Tail(r)) ELSE 0

\* The text the iteration about to run hands to getNextWord.
Rest == Drop(L.text, L.pos)

\* C13: a break escape outside braces comes back as a two-character Break
\* token only if no ordinary character precedes it in the token; where
\* ordinary characters precede it, getNextWord returns exactly the word
\* before the backslash and the offset of the backslash; and no Word token
\* holds a break escape outside braces.
C13_BreakRule ==
    AtIteration =>
        LET r == Rest
            n == NextToken(L)[1]
            w == NextToken(L)[2]
            s == LeadingSpaces(r)
        IN  /\ isLineBreak(w) =>
                  /\ IsBreakEscapeAt(r, n - 2)
                  /\ \A j \in s..(n - 3) : ~Ordinary(r, j)
            /\ \A i \in s..(Len(r) - 2) :
                  ( /\ IsBreakEscapeAt(r, i)
                    /\ \A j \in s..(i - 1) : ~IsSeparator(r, j) /\ ~IsBreakEscapeAt(r, j)
                    /\ \E j \in s..(i - 1) : Ordinary(r, j) )
                  => n = i /\ w = Slice(r, s, i)
            /\ ~isLineBreak(w) =>
                  \A i \in 0..(Len(w) - 2) : ~IsBreakEscapeAt(w, i)

\* C14: where a backslash outside braces is followed by a character other
\* than l, n, p (another backslash included; a space ends the token and is
\* left out), the token holds both characters and is no Break token.
C14_NonBreakEscapesKept ==
    AtIteration =>
        LET r == Rest
            n == NextToken(L)[1]
            w == NextToken(L)[2]
            s == LeadingSpaces(r)
        IN  \A i \in s..(Len(r) - 2) :
               ( /\ r[i + 1] = BS /\ Level(r, i) = 0
                 /\ r[i + 2] \notin {"l", "n", "p", SP}
                 /\ \A j \in s..(i - 1) : ~IsSeparator(r, j) /\ ~IsBreakEscapeAt(r, j) )
               => /\ ~isLineBreak(w)
                  /\ n - Len(w) <= i /\ i + 2 <= n

\* The locals of getNextWord before its loop.
ScanStart ==
    [escape |-> FALSE, endPos |-> 0, startPos |-> 0,
     foundNonSpace |-> FALSE, foundRegularRune |-> FALSE,
     endOnNext |-> FALSE, controlCodeLevel |-> 0,
     done |-> FALSE, ret |-> <<0, <<>>>>]

\* controlCodeLevel after getNextWord has read the first k characters of r.
LevelRead(r, k) == ScanFrom(Slice(r, 0, k), 0, ScanStart).controlCodeLevel

\* C15: the nesting counter is the number of open braces, never below
\* zero; a space or a backslash read while it is nonzero neither ends the
\* token nor starts a break; a token holds a space only where the counter
\* is nonzero, and never begins with a space.
C15_BraceNesting ==
    AtIteration =>
        LET r == Rest
            n == NextToken(L)[1]
            w == NextToken(L)[2]
            s == LeadingSpaces(r)
        IN  /\ \A k \in 0..n : LevelRead(r, k) >= 0 /\ LevelRead(r, k) = Level(r, k)
            /\ Head(w) # SP
            /\ \A j \in 0..(Len(w) - 1) : w[j + 1] = SP => Level(w, j) > 0
            /\ \A j \in s..(Len(r) - 1) :
                  ( /\ r[j + 1] \in {SP, BS} /\ Level(r, j) > 0
                    /\ \A i \in s..(j - 1) : ~IsSeparator(r, i) /\ ~IsBreakEscapeAt(r, i) )
                  => n > j /\ ~isLineBreak(w)

\* The token about to be read holds a space inside braces and ends at a
\* space outside them.
C15_Witness ==
    /\ AtIteration
    /\ \E j \in 1..Len(Tok) : Tok[j] = SP
    /\ NextToken(L)[1] < Len(Rest)
    /\ Rest[NextToken(L)[1] + 1] = SP

\* Everything written so far: the output buffer and the line being built.
Written == L.formattedSb \o L.curLineSb

\* C16: every auto-inserted break stands directly after the last character
\* of a non-empty line (not at the start of the output, not right after
\* another break) and directly before the word that triggered it, which is
\* written in the same iteration, so nothing written ends with an
\* auto-inserted break; the string returned is the output buffer followed
\* by the remaining line and nothing else.
C16_AutoBreakBetweenWords ==
    pc \in {"loop", "done"} =>
        /\ \A k \in 1..Len(L.marks) :
              L.marks[k].auto =>
                 LET at == L.marks[k].at IN
                 /\ at > 0
                 /\ Written[at] \notin {NL, SP}
                 /\ \A j \in 1..Len(L.marks) :
                       L.marks[j].at + 3 # at /\ L.marks[j].at # at + 3
                 /\ Len(Written) >= at + 4
                 /\ Written[at + 3] = NL
                 /\ Written[at + 4] \notin {NL, SP}
        /\ Returns => out = Written

\* A run with every word wider than maxWidth has returned: breaks were
\* auto-inserted, none before the first word.
C16_Witness ==
    /\ Returns
    /\ maxWidth < 0
    /\ Len(L.marks) >= 2
    /\ \A k \in 1..Len(L.marks) : L.marks[k].auto

\* Offset after the '}' that brings the nesting counter from level back to
\* zero, scanning w from offset i; Len(w) if the braces stay open.
RECURSIVE CloseOf(_, _, _)
CloseOf(w, i, level) ==
    IF i >= Len(w) THEN Len(w)
    ELSE IF w[i + 1] = LB THEN CloseOf(w, i + 1, level + 1)
    ELSE IF w[i + 1] = RB
    THEN (IF level = 1 THEN i + 1 ELSE CloseOf(w, i + 1, level - 1))
    ELSE CloseOf(w, i + 1, level)

\* The spans of w the nesting counter of getNextWord reads as inside a
\* control code: from a '{' that raises it from 0 to the '}' that returns
\* it to 0, or to the end of w.
RECURSIVE NestingSpans(_, _)
NestingSpans(w, from) ==
    LET open == IndexFrom(w, LB, from) IN
    IF open < 0 THEN <<>>
    ELSE <<(<<open, CloseOf(w, open + 1, 1)>>)>>
         \o NestingSpans(w, CloseOf(w, open + 1, 1))

\* C17: for every word token the spans inside braces by the nesting counter
\* of getNextWord are the spans processControlCodes prices and strips.
C17_SpansAgree ==
    (AtIteration /\ ~isLineBreak(Tok)) =>
        NestingSpans(Tok, 0) = FindAllControlCodes(Tok, 0)

\* Where the braces of every word are closed and not nested the two agree.
FlatSpansAgree ==
    ( /\ AtIteration /\ ~isLineBreak(Tok)
      /\ \A sp \in {NestingSpans(Tok, 0)[k] : k \in 1..Len(NestingSpans(Tok, 0))} :
             /\ Tok[sp[2]] = RB
             /\ \A i \in (sp[1] + 2)..sp[2] : Tok[i] # LB )
    => NestingSpans(Tok, 0) = FindAllControlCodes(Tok, 0)

\* Every width of the table is non-negative.
NonNegativeWidths ==
    \A f \in DOMAIN fc.Fonts :
       \A key \in DOMAIN fc.Fonts[f].Widths : fc.Fonts[f].Widths[key] >= 0

\* The line holds two or more words: it has a space outside braces.
HoldsTwoWords(line) == \E j \in 0..(Len(line) - 1) : IsSeparator(line, j)

\* The k-th line written: from the end of the break before it to the next
\* break, the last one to the end of what is written.
WrittenLine(k) ==
    Slice(Written,
          IF k = 1 THEN 0 ELSE L.marks[k - 1].at + 3,
          IF k <= Len(L.marks) THEN L.marks[k].at ELSE Len(Written))

\* C18: with non-negative widths, wherever the line buffer holds two or
\* more words its true width is at most curWidth and curWidth at most
\* maxWidth, and every line written that holds two or more words has true
\* width at most maxWidth.
C18_LineWidthBound ==
    (pc \in {"loop", "done"} /\ NonNegativeWidths) =>
        /\ HoldsTwoWords(L.curLineSb) =>
              /\ TrueWidth(L.curLineSb) <= L.curWidth
              /\ L.curWidth <= maxWidth
        /\ \A k \in 1..(Len(L.marks) + 1) :
              HoldsTwoWords(WrittenLine(k)) => TrueWidth(WrittenLine(k)) <= maxWidth

\* A returned text with a line of two words as wide as maxWidth and, after
\* an auto-inserted break, another line.
C18_Witness ==
    /\ Returns
    /\ SpaceWidth > 0
    /\ \E k \in 1..Len(L.marks) :
          /\ L.marks[k].auto
          /\ HoldsTwoWords(WrittenLine(k))
          /\ TrueWidth(WrittenLine(k)) = maxWidth

\* The tokens of toks one after the other.
RECURSIVE Concat(_)
Concat(toks) == IF toks = <<>> THEN <<>> ELSE Head(toks) \o Concat(Tail(toks))

\* text without its spaces outside braces.
WithoutSeparators(text) ==
    LET kept == SelectSeq([j \in 1..Len(text) |->
                              IF IsSeparator(text, j - 1) THEN <<>> ELSE <<text[j]>>],
                          LAMBDA x : x # <<>>)
    IN  [j \in 1..Len(kept) |-> kept[j][1]]

\* C19: every non-empty token is the slice of the rest of the text from its
\* first character that is no space to the offset consumed, and the tokens
\* of a call, one after the other, are the normalised text without its
\* spaces outside braces.
C19_NoSkippedContent ==
    /\ AtIteration =>
          Tok = Slice(Rest, LeadingSpaces(Rest), NextToken(L)[1])
    /\ Returns => Concat(Tokens(L.text)) = WithoutSeparators(L.text)

\* C20: at the top of every loop iteration isFirstWord holds exactly when
\* the line buffer is empty, and curWidth is 0 when the line buffer is
\* empty; so the space width is part of wordWidth exactly when the line
\* holds a word, and the overflow test's guard on the line buffer is the
\* same as isFirstWord being false.
C20_WrapStateConsistent ==
    pc = "loop" =>
        /\ L.isFirstWord <=> (L.curLineSb = <<>>)
        /\ (L.curLineSb = <<>>) => L.curWidth = 0
        /\ (LoopContinues(L) /\ ~isLineBreak(Tok)) =>
              /\ WordWidth(fc, fontID, L, Tok)
                    = (IF L.curLineSb # <<>> THEN SpaceWidth ELSE 0)
                      + getWordPixelWidth(fc, Tok, fontID)
              /\ Overflows(fc, maxWidth, fontID, L, Tok)
                    <=> (L.curWidth + WordWidth(fc, fontID, L, Tok) > maxWidth
                         /\ ~L.isFirstWord)

\* An iteration is about to read a word after an authored break has
\* emptied a line that held words.
C20_Witness ==
    /\ AtIteration /\ ~isLineBreak(Tok)
    /\ L.curLineSb = <<>> /\ L.isFirstWord
    /\ L.marks # <<>> /\ ~LastMark.auto
    /\ LastMark.at > 0
    /\ SpaceWidth > 0

====
